---- MODULE Spec2Model ----
(***************************************************************************)
(* Interrupt driven UART driver (iuart.c / iuart.h).                       *)
(*                                                                         *)
(* The main program flow is one sequential process whose position is pc;  *)
(* the two interrupt service routines run to completion (the AVR clears    *)
(* the global interrupt flag on ISR entry) and may fire between any two    *)
(* steps of the main flow.  A step of the main flow is one access to a     *)
(* variable shared with an ISR, or to a hardware register.                 *)
(***************************************************************************)
EXTENDS Integers, Sequences, FiniteSets, TLC

\* Sizes of the two buffers, scaled down from 256 and 80.
UART_BUFFER_SIZE == 3
RX_BUFSIZE == 3

\* The number of received bytes uart_getchar consumes in a checked session.
MaxKeys == 3

\* Byte values named in the source.
LF == 10
CR == 13
EOF == -1

TAB == 9
SPACE == 32
BEL == 7
BS == 8
DEL == 127
ETX == 3
CtrlR == 18
CtrlU == 21
CtrlW == 23
NUL == 0
FDEV_EOF == -2
FDEV_ERR == -1
ABORTED == -1

\* rxp == 0: no line is being handed out.
NULL == -1

\* A printable byte.
CharA == 97

\* Bytes the receiver delivers.
RxBytes == {LF, CR, TAB, CharA, ETX, BS, DEL, CtrlR, CtrlU, CtrlW, NUL}

\* Bytes the application passes to UART0_Putchar.
TxBytes == {LF, CharA}

VARIABLES
    UartBuffer,                \* iuart.h:21, the wrap-around buffer
    UartBufferNextByteToSend,  \* iuart.h:22, "tail"
    UartBufferNextFree,        \* iuart.h:23, "head"
    UartSendingInProgress,     \* iuart.h:24
    TXCIE,                     \* UCSR0B bit TXCIE0: Tx Complete interrupt enabled
    UDR0,                      \* the byte last written to the transmit register
    txBusy,                    \* a byte written to UDR0 has not yet raised its
                               \* Tx Complete interrupt
    pc,                        \* position of the main flow
    frames,                    \* stack of UART0_Putchar activations (locals)
    status,                    \* value last returned to the application
    pending,                   \* history: bytes accepted into the ring buffer and
                               \* not yet written to UDR0, oldest first
    nsub,                      \* history: bytes submitted before any drain
    drained,                   \* history: a Tx Complete interrupt has run
    ReceivedByte,              \* iuart.c:20
    RXC,                       \* UCSR0A bit RXC0: a received byte is unread
    FE,                        \* UCSR0A bit FE0
    DOR,                       \* UCSR0A bit DOR0
    unread,                    \* history: receive interrupts since the last
                               \* read of ReceivedByte, counted up to 2
    b,                         \* uart_getchar: static char b[RX_BUFSIZE]
    rxp,                       \* uart_getchar: static char *rxp, as an index
                               \* into b, or NULL
    cp,                        \* uart_getchar: char *cp, as an index into b
    cp2,                       \* uart_getchar: char *cp2, as an index into b
    c,                         \* uart_getchar: uint8_t c
    keys,                      \* history: the number of bytes consumed
    cp0,                       \* history: cp when the last byte was consumed
    echo                       \* history: bytes passed to UART0_Putchar since
                               \* the last byte was consumed

vars == <<UartBuffer, UartBufferNextByteToSend, UartBufferNextFree,
          UartSendingInProgress, TXCIE, UDR0, txBusy, pc, frames, status,
          pending, nsub, drained,
          ReceivedByte, RXC, FE, DOR, unread, b, rxp, cp, cp2, c, keys, cp0, echo>>

\* The receive hardware and the cell the receive interrupt writes.
rxState == <<ReceivedByte, RXC, FE, DOR, unread>>

\* The line editor's own variables.
rdState == <<b, rxp, cp, cp2, c, keys, cp0, echo>>

txState == <<UartBuffer, UartBufferNextByteToSend, UartBufferNextFree,
             UartSendingInProgress, TXCIE, UDR0, txBusy, pending, nsub, drained>>

-----------------------------------------------------------------------------
\* init_iuart: the state after construction.
init_iuart ==
    /\ UartBuffer = [i \in 0..(UART_BUFFER_SIZE - 1) |-> 0]
    /\ UartBufferNextByteToSend = 0
    /\ UartBufferNextFree = 0
    /\ UartSendingInProgress = 0
    /\ TXCIE = TRUE
    /\ UDR0 = 0
    /\ txBusy = FALSE

Init ==
    /\ init_iuart
    /\ pc = "app"
    /\ frames = <<>>
    /\ status = 0
    /\ pending = <<>>
    /\ nsub = 0
    /\ drained = FALSE
    /\ ReceivedByte = 0
    /\ RXC = FALSE
    /\ FE = FALSE
    /\ DOR = FALSE
    /\ unread = 0
    /\ b = [i \in 0..(RX_BUFSIZE - 1) |-> 0]
    /\ rxp = NULL
    /\ cp = 0
    /\ cp2 = 0
    /\ c = 0
    /\ keys = 0
    /\ cp0 = 0
    /\ echo = <<>>

-----------------------------------------------------------------------------
\* UART0_Putchar

Top == frames[Len(frames)]

SetTop(f) == [frames EXCEPT ![Len(frames)] = f]

\* A call of UART0_Putchar(ch) that returns to position retpc (line 57:
\* ReturnStatus starts at 0; UartBufferNextFree_last is written before read).
NewFrame(ch, retpc) ==
    [c |-> ch, ret |-> retpc, ReturnStatus |-> 0, UartBufferNextFree_last |-> 0]

Call(ch, retpc) ==
    /\ frames' = Append(frames, NewFrame(ch, retpc))
    /\ pc' = "p_nl"

\* The application calls UART0_Putchar(ch).
AppPutchar ==
    /\ pc = "app"
    /\ \E ch \in TxBytes : Call(ch, "app")
    /\ status' = 0
    /\ UNCHANGED txState
    /\ UNCHANGED <<rxState, rdState>>

\* Lines 61-62: a newline first sends a carriage return, by a recursive call
\* whose result is dropped.
P_nl ==
    /\ pc = "p_nl"
    /\ IF Top.c = LF
          THEN /\ frames' = Append(frames, NewFrame(CR, "p_test"))
               /\ pc' = "p_nl"
          ELSE /\ pc' = "p_test"
               /\ frames' = frames
    /\ UNCHANGED <<txState, status>>
    /\ UNCHANGED <<rxState, rdState>>

\* Line 66: the test of the flag, outside the critical section.
P_test ==
    /\ pc = "p_test"
    /\ pc' = IF UartSendingInProgress = 0 THEN "p_flag" ELSE "p_cli"
    /\ nsub' = IF drained \/ nsub > UART_BUFFER_SIZE THEN nsub ELSE nsub + 1
    /\ UNCHANGED <<UartBuffer, UartBufferNextByteToSend, UartBufferNextFree,
                   UartSendingInProgress, TXCIE, UDR0, txBusy, pending, drained,
                   frames, status>>
    /\ UNCHANGED <<rxState, rdState>>

\* Line 69.
P_flag ==
    /\ pc = "p_flag"
    /\ UartSendingInProgress' = 1
    /\ pc' = "p_udr"
    /\ UNCHANGED <<UartBuffer, UartBufferNextByteToSend, UartBufferNextFree,
                   TXCIE, UDR0, txBusy, pending, nsub, drained, frames, status>>
    /\ UNCHANGED <<rxState, rdState>>

\* Line 71: the byte goes straight to the transmit register.
P_udr ==
    /\ pc = "p_udr"
    /\ UDR0' = Top.c
    /\ txBusy' = TRUE
    /\ pc' = "p_ret"
    /\ UNCHANGED <<UartBuffer, UartBufferNextByteToSend, UartBufferNextFree,
                   UartSendingInProgress, TXCIE, pending, nsub, drained,
                   frames, status>>
    /\ UNCHANGED <<rxState, rdState>>

\* Line 76.
P_cli ==
    /\ pc = "p_cli"
    /\ TXCIE' = FALSE
    /\ pc' = "p_store"
    /\ UNCHANGED <<UartBuffer, UartBufferNextByteToSend, UartBufferNextFree,
                   UartSendingInProgress, UDR0, txBusy, pending, nsub, drained,
                   frames, status>>
    /\ UNCHANGED <<rxState, rdState>>

\* Lines 78-81: store the byte, save the index, increment it.
P_store ==
    /\ pc = "p_store"
    /\ UartBuffer' = [UartBuffer EXCEPT ![UartBufferNextFree] = Top.c]
    /\ frames' = SetTop([Top EXCEPT !.UartBufferNextFree_last = UartBufferNextFree])
    /\ UartBufferNextFree' = UartBufferNextFree + 1
    /\ pc' = "p_wrap"
    /\ UNCHANGED <<UartBufferNextByteToSend, UartSendingInProgress, TXCIE, UDR0,
                   txBusy, pending, nsub, drained, status>>
    /\ UNCHANGED <<rxState, rdState>>

\* Lines 84-85 without the wrap-around.
P_wrap_NoWrap ==
    /\ pc = "p_wrap"
    /\ pc' = "p_full"
    /\ UNCHANGED <<UartBuffer, UartBufferNextByteToSend, UartBufferNextFree,
                   UartSendingInProgress, TXCIE, UDR0, txBusy, pending, nsub,
                   drained, frames, status>>
    /\ UNCHANGED <<rxState, rdState>>

\* Lines 84-85.
P_wrap ==
    /\ pc = "p_wrap"
    /\ UartBufferNextFree' =
          IF UartBufferNextFree = UART_BUFFER_SIZE THEN 0 ELSE UartBufferNextFree
    /\ pc' = "p_full"
    /\ UNCHANGED <<UartBuffer, UartBufferNextByteToSend, UartSendingInProgress,
                   TXCIE, UDR0, txBusy, pending, nsub, drained, frames, status>>
    /\ UNCHANGED <<rxState, rdState>>

\* Variants of lines 87-93 with a plausible slip each.
\* The index is not put back when the buffer is full.
P_full_NoRollback ==
    /\ pc = "p_full"
    /\ IF UartBufferNextFree = UartBufferNextByteToSend
          THEN /\ frames' = SetTop([Top EXCEPT !.ReturnStatus = EOF])
               /\ pending' = pending
          ELSE /\ frames' = frames
               /\ pending' = Append(pending, Top.c)
    /\ pc' = "p_sei"
    /\ UNCHANGED <<UartBuffer, UartBufferNextByteToSend, UartBufferNextFree,
                   UartSendingInProgress, TXCIE, UDR0, txBusy, nsub, drained, status>>
    /\ UNCHANGED <<rxState, rdState>>

\* The saved index, not the advanced one, is compared with the tail.
P_full_SavedIndex ==
    /\ pc = "p_full"
    /\ IF Top.UartBufferNextFree_last = UartBufferNextByteToSend
          THEN /\ UartBufferNextFree' = Top.UartBufferNextFree_last
               /\ frames' = SetTop([Top EXCEPT !.ReturnStatus = EOF])
               /\ pending' = pending
          ELSE /\ UartBufferNextFree' = UartBufferNextFree
               /\ frames' = frames
               /\ pending' = Append(pending, Top.c)
    /\ pc' = "p_sei"
    /\ UNCHANGED <<UartBuffer, UartBufferNextByteToSend, UartSendingInProgress,
                   TXCIE, UDR0, txBusy, nsub, drained, status>>
    /\ UNCHANGED <<rxState, rdState>>

\* The full path returns at once, without line 96.
P_full_EarlyReturn ==
    /\ pc = "p_full"
    /\ IF UartBufferNextFree = UartBufferNextByteToSend
          THEN /\ UartBufferNextFree' = Top.UartBufferNextFree_last
               /\ frames' = SetTop([Top EXCEPT !.ReturnStatus = EOF])
               /\ pending' = pending
               /\ pc' = "p_ret"
          ELSE /\ UartBufferNextFree' = UartBufferNextFree
               /\ frames' = frames
               /\ pending' = Append(pending, Top.c)
               /\ pc' = "p_sei"
    /\ UNCHANGED <<UartBuffer, UartBufferNextByteToSend, UartSendingInProgress,
                   TXCIE, UDR0, txBusy, nsub, drained, status>>
    /\ UNCHANGED <<rxState, rdState>>

\* Lines 87-93: the buffer is full when the advanced index meets the tail;
\* the index is then put back and the call reports EOF.
P_full ==
    /\ pc = "p_full"
    /\ IF UartBufferNextFree = UartBufferNextByteToSend
          THEN /\ UartBufferNextFree' = Top.UartBufferNextFree_last
               /\ frames' = SetTop([Top EXCEPT !.ReturnStatus = EOF])
               /\ pending' = pending
          ELSE /\ UartBufferNextFree' = UartBufferNextFree
               /\ frames' = frames
               /\ pending' = Append(pending, Top.c)
    /\ pc' = "p_sei"
    /\ UNCHANGED <<UartBuffer, UartBufferNextByteToSend, UartSendingInProgress,
                   TXCIE, UDR0, txBusy, nsub, drained, status>>
    /\ UNCHANGED <<rxState, rdState>>

\* Line 96.
P_sei ==
    /\ pc = "p_sei"
    /\ TXCIE' = TRUE
    /\ pc' = "p_ret"
    /\ UNCHANGED <<UartBuffer, UartBufferNextByteToSend, UartBufferNextFree,
                   UartSendingInProgress, UDR0, txBusy, pending, nsub, drained,
                   frames, status>>
    /\ UNCHANGED <<rxState, rdState>>

\* Line 101: return ReturnStatus to the caller.
P_ret ==
    /\ pc = "p_ret"
    /\ pc' = Top.ret
    /\ frames' = SubSeq(frames, 1, Len(frames) - 1)
    /\ status' = IF Top.ret = "app" THEN Top.ReturnStatus ELSE status
    /\ UNCHANGED txState
    /\ UNCHANGED <<rxState, rdState>>

-----------------------------------------------------------------------------
\* ISR(USART_TX_vect), lines 262-277.  It runs when a byte written to UDR0
\* has been shifted out and the Tx Complete interrupt is enabled.
ISR_TX ==
    /\ txBusy
    /\ TXCIE
    /\ drained' = TRUE
    /\ nsub' = 0
    /\ IF UartBufferNextByteToSend = UartBufferNextFree
          THEN /\ UartSendingInProgress' = 0
               /\ txBusy' = FALSE
               /\ UNCHANGED <<UDR0, UartBufferNextByteToSend, pending>>
          ELSE /\ UartSendingInProgress' = 1
               /\ UDR0' = UartBuffer[UartBufferNextByteToSend]
               /\ txBusy' = TRUE
               /\ UartBufferNextByteToSend' =
                     IF UartBufferNextByteToSend + 1 = UART_BUFFER_SIZE
                        THEN 0 ELSE UartBufferNextByteToSend + 1
               /\ pending' = IF pending = <<>> THEN pending ELSE Tail(pending)
    /\ UNCHANGED <<UartBuffer, UartBufferNextFree, TXCIE, pc, frames, status>>
    /\ UNCHANGED <<rxState, rdState>>

-----------------------------------------------------------------------------
\* The receive hardware: a byte arrives and raises Receive Complete, with the
\* framing-error and overrun bits as the line delivered them.
HwReceive ==
    /\ ~RXC
    /\ RXC' = TRUE
    /\ FE' \in BOOLEAN
    /\ DOR' \in BOOLEAN
    /\ UNCHANGED <<ReceivedByte, unread, txState, rdState, pc, frames, status>>

\* ISR(USART_RX_vect), line 242.  Reading UDR0 takes the byte out of the
\* receiver, which clears RXC0, FE0 and DOR0.
ISR_RX_Buffers ==
    /\ RXC
    /\ \E d \in RxBytes : /\ ReceivedByte' = d
                          /\ b' = [b EXCEPT ![cp] = d]
    /\ unread' = IF unread < 2 THEN unread + 1 ELSE 2
    /\ RXC' = FALSE
    /\ FE' = FALSE
    /\ DOR' = FALSE
    /\ UNCHANGED <<txState, rxp, cp, cp2, c, keys, cp0, echo, pc, frames, status>>

ISR_RX ==
    /\ RXC
    /\ \E d \in RxBytes : ReceivedByte' = d
    /\ unread' = IF unread < 2 THEN unread + 1 ELSE 2
    /\ RXC' = FALSE
    /\ FE' = FALSE
    /\ DOR' = FALSE
    /\ UNCHANGED <<txState, rdState, pc, frames, status>>

-----------------------------------------------------------------------------
\* uart_getchar

\* Lines 166-167.
Printable(x) == (x >= SPACE /\ x <= 126) \/ x >= 160

\* Lines 154-155 and 163-164: CR becomes LF, TAB becomes a space.
Normalise(x) == IF x = CR THEN LF ELSE IF x = TAB THEN SPACE ELSE x

\* Line 169: the buffer holds RX_BUFSIZE - 1 bytes, one slot is kept for the
\* newline.
AtLimit_OffByOne(p) == p = RX_BUFSIZE
AtLimit_None(p) == FALSE
AtLimit(p) == p = RX_BUFSIZE - 1

\* Line 176: after a printable byte the loop continues.
AfterPrintable_Break == "g_fin"
AfterPrintable == "g_wait"

\* The k-th byte of the erase sequence of lines 188-190 (204-206, 214-216).
EraseByte_AllBackspace(k) == BS
EraseByte(k) == IF k = 2 THEN SPACE ELSE BS

\* uart_getchar calls UART0_Putchar(ch) and continues at retpc.
GCall(ch, retpc) ==
    /\ Call(ch, retpc)
    /\ echo' = Append(echo, ch)

\* uart_getchar returns v.
GReturn(v) ==
    /\ pc' = "app"
    /\ status' = v
    /\ frames' = frames

\* The application calls uart_getchar.
AppGetchar ==
    /\ pc = "app"
    /\ pc' = "g_entry"
    /\ status' = 0
    /\ UNCHANGED <<txState, rxState, rdState, frames>>

\* Lines 144-145 with a cursor that keeps its value between calls.
G_entry_KeepCursor ==
    /\ pc = "g_entry"
    /\ IF rxp = NULL
          THEN /\ pc' = "g_wait"
               /\ c' = 0
               /\ cp0' = 0
               /\ echo' = <<>>
               /\ UNCHANGED cp
          ELSE /\ pc' = "g_drain"
               /\ UNCHANGED <<cp, c, cp0, echo>>
    /\ UNCHANGED <<txState, rxState, b, rxp, cp2, keys, frames, status>>

\* Lines 144-145.
G_entry ==
    /\ pc = "g_entry"
    /\ IF rxp = NULL
          THEN /\ cp' = 0
               /\ pc' = "g_wait"
               /\ c' = 0
               /\ cp0' = 0
               /\ echo' = <<>>
          ELSE /\ pc' = "g_drain"
               /\ UNCHANGED <<cp, c, cp0, echo>>
    /\ UNCHANGED <<txState, rxState, b, rxp, cp2, keys, frames, status>>

\* Line 147.
G_wait ==
    /\ pc = "g_wait"
    /\ RXC
    /\ keys < MaxKeys
    /\ keys' = keys + 1
    /\ pc' = "g_fe"
    /\ c' = 0
    /\ cp0' = 0
    /\ echo' = <<>>
    /\ UNCHANGED <<txState, rxState, b, rxp, cp, cp2, frames, status>>

\* Lines 148-149 without the test of FE0.
G_fe_Ignored ==
    /\ pc = "g_fe"
    /\ pc' = "g_dor"
    /\ UNCHANGED <<txState, rxState, rdState, status, frames>>

\* Lines 148-149.
G_fe ==
    /\ pc = "g_fe"
    /\ IF FE
          THEN GReturn(FDEV_EOF)
          ELSE pc' = "g_dor" /\ UNCHANGED <<status, frames>>
    /\ UNCHANGED <<txState, rxState, rdState>>

\* Lines 150-151.
G_dor ==
    /\ pc = "g_dor"
    /\ IF DOR
          THEN GReturn(FDEV_ERR)
          ELSE pc' = "g_read" /\ UNCHANGED <<status, frames>>
    /\ UNCHANGED <<txState, rxState, rdState>>

\* Lines 152-220: the byte is taken from ReceivedByte, normalised and
\* dispatched, up to the first call of UART0_Putchar.
G_read ==
    /\ pc = "g_read"
    /\ LET k == Normalise(ReceivedByte) IN
       /\ c' = k
       /\ cp0' = cp
       /\ \/ /\ k = LF                                   \* lines 156-162
             /\ b' = [b EXCEPT ![cp] = k]
             /\ echo' = <<k>>
             /\ Call(k, "g_fin")
             /\ UNCHANGED <<cp, cp2, status>>
          \/ /\ Printable(k)                             \* lines 166-177
             /\ IF AtLimit(cp)
                   THEN /\ echo' = <<BEL>>
                        /\ Call(BEL, AfterPrintable)
                        /\ UNCHANGED <<b, cp>>
                   ELSE /\ b' = [b EXCEPT ![cp] = k]
                        /\ cp' = cp + 1
                        /\ echo' = <<k>>
                        /\ Call(k, AfterPrintable)
             /\ UNCHANGED <<cp2, status>>
          \/ /\ k = ETX                                  \* lines 181-182
             /\ GReturn(ABORTED)
             /\ echo' = <<>>
             /\ UNCHANGED <<b, cp, cp2>>
          \/ /\ k \in {BS, DEL}                          \* lines 184-193
             /\ IF cp > 0
                   THEN /\ echo' = <<EraseByte(1)>>
                        /\ Call(EraseByte(1), "g_bs2")
                   ELSE /\ echo' = <<>>
                        /\ pc' = "g_wait"
                        /\ frames' = frames
             /\ UNCHANGED <<b, cp, cp2, status>>
          \/ /\ k = CtrlR                                \* lines 195-196
             /\ echo' = <<CR>>
             /\ Call(CR, "g_r")
             /\ cp2' = 0
             /\ UNCHANGED <<b, cp, status>>
          \/ /\ k = CtrlU                                \* line 201
             /\ echo' = <<>>
             /\ pc' = "g_u"
             /\ UNCHANGED <<b, cp, cp2, status, frames>>
          \/ /\ k = CtrlW                                \* line 211
             /\ echo' = <<>>
             /\ pc' = "g_w"
             /\ UNCHANGED <<b, cp, cp2, status, frames>>
          \/ /\ k # LF /\ ~Printable(k)                  \* line 179: no case
             /\ k \notin {ETX, BS, DEL, CtrlR, CtrlU, CtrlW}
             /\ echo' = <<>>
             /\ pc' = "g_wait"
             /\ UNCHANGED <<b, cp, cp2, status, frames>>
    /\ unread' = 0
    /\ UNCHANGED <<txState, ReceivedByte, RXC, FE, DOR, rxp, keys>>

\* Lines 160-161: the line is complete.
G_fin ==
    /\ pc = "g_fin"
    /\ rxp' = 0
    /\ pc' = "g_drain"
    /\ UNCHANGED <<txState, rxState, b, cp, cp2, c, keys, cp0, echo, frames, status>>

\* Lines 223-227 without the reset of rxp at the newline.
G_drain_NoReset ==
    /\ pc = "g_drain"
    /\ rxp # NULL
    /\ rxp' = rxp + 1
    /\ pc' = "app"
    /\ status' = b[rxp]
    /\ UNCHANGED <<txState, rxState, b, cp, cp2, c, keys, cp0, echo, frames>>

\* Lines 223-227: hand out the next byte of the line.
G_drain ==
    /\ pc = "g_drain"
    /\ rxp # NULL
    /\ rxp' = IF b[rxp] = LF THEN NULL ELSE rxp + 1
    /\ pc' = "app"
    /\ status' = b[rxp]
    /\ UNCHANGED <<txState, rxState, b, cp, cp2, c, keys, cp0, echo, frames>>

\* The rest of an erase sequence whose first byte was sent from position
\* first: the space, the second backspace, then cp-- and on to back.
EraseRest(p2, p3, p4, back) ==
    \/ /\ pc = p2
       /\ GCall(EraseByte(2), p3)
       /\ UNCHANGED cp
    \/ /\ pc = p3
       /\ GCall(EraseByte(3), p4)
       /\ UNCHANGED cp
    \/ /\ pc = p4
       /\ cp' = cp - 1
       /\ pc' = back
       /\ UNCHANGED <<frames, echo>>

\* Lines 189-192.
G_bs ==
    /\ EraseRest("g_bs2", "g_bs3", "g_bs4", "g_wait")
    /\ UNCHANGED <<txState, rxState, b, rxp, cp2, c, keys, cp0, status>>

\* Lines 202-208 with the loop stopping one character early.
G_u_LeavesOne ==
    /\ \/ /\ pc = "g_u"
          /\ IF cp > 1
                THEN GCall(EraseByte(1), "g_u2")
                ELSE pc' = "g_wait" /\ UNCHANGED <<frames, echo>>
          /\ UNCHANGED cp
       \/ EraseRest("g_u2", "g_u3", "g_u4", "g_u")
    /\ UNCHANGED <<txState, rxState, b, rxp, cp2, c, keys, cp0, status>>

\* Lines 202-208.
G_u ==
    /\ \/ /\ pc = "g_u"
          /\ IF cp > 0
                THEN GCall(EraseByte(1), "g_u2")
                ELSE pc' = "g_wait" /\ UNCHANGED <<frames, echo>>
          /\ UNCHANGED cp
       \/ EraseRest("g_u2", "g_u3", "g_u4", "g_u")
    /\ UNCHANGED <<txState, rxState, b, rxp, cp2, c, keys, cp0, status>>

\* Lines 212-218.
G_w ==
    /\ \/ /\ pc = "g_w"
          /\ IF cp > 0 /\ b[cp - 1] # SPACE
                THEN GCall(EraseByte(1), "g_w2")
                ELSE pc' = "g_wait" /\ UNCHANGED <<frames, echo>>
          /\ UNCHANGED cp
       \/ EraseRest("g_w2", "g_w3", "g_w4", "g_w")
    /\ UNCHANGED <<txState, rxState, b, rxp, cp2, c, keys, cp0, status>>

\* Lines 197-198 with the loop running one byte too far.
G_r_OffByOne ==
    /\ pc = "g_r"
    /\ IF cp2 <= cp
          THEN GCall(b[cp2], "g_r") /\ cp2' = cp2 + 1
          ELSE pc' = "g_wait" /\ UNCHANGED <<frames, echo, cp2>>
    /\ UNCHANGED <<txState, rxState, b, rxp, cp, c, keys, cp0, status>>

\* Lines 197-198.
G_r ==
    /\ pc = "g_r"
    /\ IF cp2 < cp
          THEN GCall(b[cp2], "g_r") /\ cp2' = cp2 + 1
          ELSE pc' = "g_wait" /\ UNCHANGED <<frames, echo, cp2>>
    /\ UNCHANGED <<txState, rxState, b, rxp, cp, c, keys, cp0, status>>

-----------------------------------------------------------------------------
\* Properties of the transmit side.

\* The index after i, with wrap-around.
NextIdx(i) == IF i + 1 = UART_BUFFER_SIZE THEN 0 ELSE i + 1

\* The index before i, with wrap-around.
PrevIdx(i) == IF i = 0 THEN UART_BUFFER_SIZE - 1 ELSE i - 1

\* The bytes the Tx Complete interrupt will send: those from the tail up to
\* the head.
RECURSIVE RingFrom(_, _)
RingFrom(t, h) ==
    IF t = h THEN <<>> ELSE <<UartBuffer[t]>> \o RingFrom(NextIdx(t), h)

RingSeq == RingFrom(UartBufferNextByteToSend, UartBufferNextFree)

\* The positions between the increment of the head and the full test.
MidAppend == {"p_wrap", "p_full"}

\* The positions inside the critical section.
Masked == {"p_store", "p_wrap", "p_full", "p_sei"}

\* A step that writes the transmit register: line 71 or line 272.
DirectWrite == pc = "p_udr" /\ pc' = "p_ret"
IsrWrite == UartBufferNextByteToSend' # UartBufferNextByteToSend
TxWrite == DirectWrite \/ IsrWrite

\* A step of the Tx Complete interrupt.
IsrStep == IsrWrite \/ (UartSendingInProgress = 1 /\ UartSendingInProgress' = 0)

\* C1: transmit FIFO order.  A byte written to the transmit register is the
\* oldest accepted byte not yet written: a direct write finds no accepted byte
\* waiting, and the interrupt writes the head of the waiting bytes.
C1_FifoOrder ==
    [][ /\ (DirectWrite => pending = <<>>)
        /\ (IsrWrite => pending # <<>> /\ UDR0' = Head(pending)) ]_vars

\* C2: buffer-full rollback.  The step that finds the advanced head equal to
\* the tail reports EOF, puts the head back to the slot before the tail (its
\* value before the advance), leaves tail, flag and transmit register alone and
\* queues nothing; outside the append the bytes between tail and head are
\* exactly the accepted bytes, so a rejected byte is never sent.
C2_Rollback ==
    [][ /\ (pc = "p_full" /\ UartBufferNextFree = UartBufferNextByteToSend) =>
             /\ pc' = "p_sei"
             /\ Top'.ReturnStatus = EOF
             /\ UartBufferNextFree' = PrevIdx(UartBufferNextByteToSend)
             /\ UartBufferNextByteToSend' = UartBufferNextByteToSend
             /\ UartSendingInProgress' = UartSendingInProgress
             /\ UDR0' = UDR0
             /\ pending' = pending
        /\ (pc' \notin MidAppend => RingSeq' = pending') ]_vars

C2_Witness ==
    /\ pc = "p_ret"
    /\ Top.ReturnStatus = EOF
    /\ Len(pending) = UART_BUFFER_SIZE - 1

\* C3: from the initialized driver, with no Tx Complete interrupt so far, a
\* call that is among the first UART_BUFFER_SIZE - 1 bytes submitted returns 0.
C3_NoFullBelowCapacity ==
    (pc = "p_ret" /\ ~drained /\ nsub <= UART_BUFFER_SIZE - 1)
        => Top.ReturnStatus = 0

C3_Witness ==
    /\ pc = "p_ret"
    /\ ~drained
    /\ nsub = UART_BUFFER_SIZE - 1
    /\ Top.ReturnStatus = 0
    /\ pending # <<>>

\* C4: newline expansion.  Only a newline makes the driver send a carriage
\* return here, so every carriage return written to the transmit register is
\* followed, as the next byte written, by the line feed.
C4_NewlineExpansion ==
    [][ (TxWrite /\ UDR0 = CR) => UDR0' = LF ]_vars

\* C5: critical-section discipline.  The Tx Complete interrupt is masked
\* exactly inside the append path, it never runs while masked, and it is
\* enabled whenever UART0_Putchar is about to return.
C5_CriticalSection ==
    [][ /\ (~TXCIE <=> pc \in Masked)
        /\ (~TXCIE' <=> pc' \in Masked)
        /\ (pc' = "p_ret" => TXCIE')
        /\ (IsrStep => TXCIE) ]_vars

C5_Witness ==
    /\ pc = "p_sei"
    /\ ~TXCIE
    /\ txBusy
    /\ Top.ReturnStatus = EOF

-----------------------------------------------------------------------------
\* Properties of the line editor.

\* The positions of uart_getchar from which it returns to the application.
ReturnPoints == {"g_fe", "g_dor", "g_read", "g_drain"}

\* A step in which uart_getchar returns.
GetcharReturns == pc \in ReturnPoints /\ pc' = "app"

\* The line being handed out: the last byte consumed was the newline, it is
\* stored at b[cp0], no newline lies before it, and rxp has not passed it.
LineFinal ==
    /\ rxp # NULL
    /\ c = LF
    /\ rxp <= cp0
    /\ b[cp0] = LF
    /\ \A j \in 0..(cp0 - 1) : b[j] # LF

\* C6: partial lines are never exposed.  A call that returns a data byte (not
\* one of the negative error codes) returns it from a finalized line.
C6_NoPartialLine ==
    [][ (GetcharReturns /\ status' >= 0) =>
            (pc = "g_drain" /\ LineFinal /\ status' = b[rxp]) ]_vars

C6_Witness ==
    /\ pc = "app"
    /\ status = CharA
    /\ rxp = 1
    /\ b[0] = CharA
    /\ b[1] = LF

\* C7: draining order.  While a line is handed out its bytes up to the newline
\* lie in b from rxp on; each call returns b[rxp] and moves rxp by one, the
\* call that returns the newline sets rxp back to NULL, and a handing-out step
\* consumes no received byte, passes nothing to UART0_Putchar and leaves the
\* transmit side and the line buffer alone.
C7_DrainOrder ==
    [][ /\ (rxp # NULL => LineFinal)
        /\ (pc = "g_entry" /\ rxp # NULL) => (pc' = "g_drain" /\ rxp' = rxp)
        /\ (pc = "g_drain") =>
              /\ pc' = "app"
              /\ status' = b[rxp]
              /\ rxp' = IF rxp = cp0 THEN NULL ELSE rxp + 1
              /\ (status' = LF <=> rxp' = NULL)
        /\ (pc \in {"g_entry", "g_drain"} /\ rxp # NULL) =>
              UNCHANGED <<b, keys, frames, echo, txState, rxState>> ]_vars

C7_Witness ==
    /\ pc = "app"
    /\ status = LF
    /\ rxp = NULL
    /\ c = LF
    /\ cp0 = RX_BUFSIZE - 1
    /\ keys = RX_BUFSIZE

EchoedKey ==
    \/ c = LF
    \/ Printable(c) /\ ~AtLimit(cp0)
    \/ c \in {BS, DEL, CtrlU, CtrlW}

\* C9: echo of every keystroke.  Every echo byte that uart_getchar passes to
\* UART0_Putchar for an appended printable byte, a finalizing newline or an
\* erased character is written to the transmit register or queued in the ring
\* buffer: the call made for it does not end with EOF, whatever the state of
\* the transmit side.
C9_EchoAlwaysSent ==
    (pc = "p_ret" /\ Top.ret # "p_test" /\ EchoedKey)
        => Top.ReturnStatus = 0

\* C10: line-length limit.  The cursor never passes RX_BUFSIZE - 1.  A
\* printable byte consumed below the limit is stored at the cursor and passed
\* to UART0_Putchar; at the limit the buffer and the cursor stay and BEL is
\* passed instead.  A newline is stored at the cursor also at the limit and
\* completes the line, and the erasing keys still move the cursor back there.
C10_LineLimit ==
    [][ /\ cp <= RX_BUFSIZE - 1
        /\ cp' <= RX_BUFSIZE - 1
        /\ (pc = "g_read" /\ Printable(Normalise(ReceivedByte))) =>
              IF cp < RX_BUFSIZE - 1
                 THEN /\ b' = [b EXCEPT ![cp] = Normalise(ReceivedByte)]
                      /\ cp' = cp + 1
                      /\ Top'.c = Normalise(ReceivedByte)
                      /\ Top'.ret = "g_wait"
                 ELSE /\ b' = b
                      /\ cp' = cp
                      /\ Top'.c = BEL
                      /\ Top'.ret = "g_wait"
        /\ (pc = "g_read" /\ Normalise(ReceivedByte) = LF) =>
              /\ b' = [b EXCEPT ![cp] = LF]
              /\ Top'.c = LF
              /\ Top'.ret = "g_fin"
        /\ (pc = "g_fin") => (rxp' = 0 /\ b[cp] = LF /\ pc' = "g_drain")
        /\ (pc' = "g_wait" /\ c' \in {BS, DEL, CtrlU} /\ cp0' = RX_BUFSIZE - 1)
              => cp' < RX_BUFSIZE - 1 ]_vars

C10_Witness ==
    /\ pc = "g_wait"
    /\ Printable(c)
    /\ cp0 = RX_BUFSIZE - 1
    /\ cp = RX_BUFSIZE - 1
    /\ echo = <<BEL>>

\* The erase sequence of lines 188-190, n times.
RECURSIVE EraseTimes(_)
EraseTimes(n) == IF n <= 0 THEN <<>> ELSE <<BS, SPACE, BS>> \o EraseTimes(n - 1)

C12_CtrlU ==
    [][ /\ (c' = CtrlU) => (b' = b /\ rxp' = NULL /\ pc' # "app")
        /\ (pc' = "g_wait" /\ c' = CtrlU) =>
              (cp' = 0 /\ echo' = EraseTimes(cp0'))
        /\ (pc = "g_read" /\ cp = 0 /\ Normalise(ReceivedByte) = LF) =>
              (b'[0] = LF /\ Top'.ret = "g_fin")
        /\ (pc = "g_drain" /\ cp0 = 0) => (status' = LF /\ rxp' = NULL) ]_vars

C12_Witness ==
    /\ pc = "g_wait"
    /\ c = CtrlU
    /\ cp0 = RX_BUFSIZE - 1
    /\ cp = 0
    /\ Len(echo) = 3 * (RX_BUFSIZE - 1)

\* The first n bytes of the line buffer hold a word, a byte that is not a
\* space.
HasWord(n) == \E i \in 0..(n - 1) : b[i] # SPACE

\* C13: Ctrl-W.  The key erases back to and including the previous word, with
\* one erase sequence per erased character and the bytes before the word left
\* alone; whenever the buffered content contains a word, the last word is
\* removed.
C13_CtrlW ==
    (pc = "g_wait" /\ c = CtrlW) =>
        /\ cp <= cp0
        /\ echo = EraseTimes(cp0 - cp)
        /\ (cp = 0 \/ b[cp - 1] = SPACE)
        /\ HasWord(cp0) => \E i \in cp..(cp0 - 1) : b[i] # SPACE

\* C14: line state reset.  Every collecting phase starts with the cursor at
\* the start of the line buffer and no line being handed out, whatever ended
\* the call before: the newline of a drained line, a receive error or the
\* abort byte all leave rxp at NULL.  The cursor moves forward only over a
\* byte stored by the same step, and the line buffer changes only by such a
\* store, so every byte of a line handed out later was consumed in its own
\* collecting phase.
C14_LineStateReset ==
    [][ /\ (pc = "g_entry" /\ rxp = NULL) =>
              (pc' = "g_wait" /\ cp' = 0 /\ rxp' = NULL)
        /\ (GetcharReturns /\ (status' < 0 \/ status' = LF)) => rxp' = NULL
        /\ (pc \in {"g_wait", "g_fe", "g_dor", "g_read"}) => rxp = NULL
        /\ (cp' > cp) =>
              (pc = "g_read" /\ cp' = cp + 1 /\ b'[cp] = Normalise(ReceivedByte))
        /\ (b' # b) =>
              (pc = "g_read" /\ b' = [b EXCEPT ![cp] = Normalise(ReceivedByte)])
        /\ (rxp' # NULL /\ rxp = NULL) => (pc = "g_fin" /\ rxp' = 0 /\ b[cp] = LF)
      ]_vars

C14_Witness ==
    /\ pc = "g_wait"
    /\ c = 0
    /\ keys = MaxKeys
    /\ ReceivedByte = ETX
    /\ cp = 0
    /\ rxp = NULL
    /\ b[0] = CharA
    /\ b[1] = CharA

\* C15: ring-index invariant.  Whenever the Tx Complete interrupt can run, and
\* whenever the application is between two calls, head and tail are inside
\* the buffer, and the buffer is not both empty and full.
C15_RingIndex ==
    (TXCIE \/ pc = "app") =>
        /\ UartBufferNextFree \in 0..(UART_BUFFER_SIZE - 1)
        /\ UartBufferNextByteToSend \in 0..(UART_BUFFER_SIZE - 1)
        /\ ~ (/\ UartBufferNextFree = UartBufferNextByteToSend
              /\ NextIdx(UartBufferNextFree) = UartBufferNextByteToSend)

C15_Witness ==
    /\ pc = "app"
    /\ UartBufferNextFree = 0
    /\ UartBufferNextByteToSend = UART_BUFFER_SIZE - 1
    /\ UartSendingInProgress = 1

\* C16: no stranded bytes.  Between two calls of UART0_Putchar, a cleared
\* sending-in-progress flag means an empty ring buffer.
C16_NoStrandedBytes ==
    (pc = "app" /\ UartSendingInProgress = 0) =>
        UartBufferNextFree = UartBufferNextByteToSend

\* C17: transmit liveness.  Once the application makes no further call, every
\* byte accepted into the ring buffer is eventually written to UDR0: no
\* accepted byte stays unsent for ever.
C17_TransmitLiveness ==
    <>[](pc = "app") => <>[](pending = <<>>)

\* A step of the receive interrupt: only its read of UDR0 clears RXC0.
RxIsrStep == RXC /\ ~RXC'

\* C18: single-cell receive hand-off.  The receive interrupt writes
\* ReceivedByte, also when the byte written before was not read yet, and
\* changes nothing else of the driver; nothing else writes the cell.  A
\* consumption reads the cell as the latest interrupt left it, and what it
\* stores in the line buffer or passes to UART0_Putchar comes from that value
\* alone, so a byte overwritten before it was read is never stored, echoed or
\* returned.
C18_SingleCell ==
    [][ /\ RxIsrStep =>
              /\ ReceivedByte' \in RxBytes
              /\ unread' = IF unread < 2 THEN unread + 1 ELSE 2
              /\ UNCHANGED <<txState, rdState, pc, frames, status>>
        /\ (ReceivedByte' # ReceivedByte) => RxIsrStep
        /\ (pc = "g_read") =>
              /\ c' = Normalise(ReceivedByte)
              /\ (b' = b \/ b' = [b EXCEPT ![cp] = Normalise(ReceivedByte)])
              /\ (frames' # frames =>
                     Top'.c \in {Normalise(ReceivedByte), BEL, BS, CR})
              /\ (pc' = "app" => status' = ABORTED /\ ReceivedByte = ETX)
        /\ (pc # "g_read") => b' = b ]_vars

C18_Witness ==
    /\ pc = "g_read"
    /\ unread = 2
    /\ ReceivedByte = CharA
    /\ cp = 1
    /\ b[0] = SPACE

\* C19: line-buffer bound.  The cursor is always 0 to RX_BUFSIZE - 1 bytes
\* from the start of the line buffer, so every store lands inside it; a line
\* being handed out ends with the newline at an index inside the buffer, and
\* the read position is never past that newline.
C19_LineBufferBound ==
    /\ DOMAIN b = 0..(RX_BUFSIZE - 1)
    /\ cp \in 0..(RX_BUFSIZE - 1)
    /\ cp0 \in 0..(RX_BUFSIZE - 1)
    /\ (pc \in {"g_read", "g_fin"}) => cp \in DOMAIN b
    /\ (rxp # NULL) =>
          /\ rxp \in 0..cp0
          /\ cp0 + 1 <= RX_BUFSIZE
          /\ b[cp0] = LF

C19_Witness ==
    /\ pc = "g_drain"
    /\ rxp = RX_BUFSIZE - 1
    /\ b[rxp] = LF
    /\ b[0] # LF

\* The first n bytes of the line buffer, in buffer order.
Buffered(n) == [i \in 1..n |-> b[i - 1]]

\* C20: Ctrl-R.  The key leaves the line buffer and the cursor alone, keeps
\* the reader collecting, and passes to UART0_Putchar a carriage return and
\* then the buffered characters in buffer order, each once.
C20_CtrlR ==
    [][ /\ (c' = CtrlR) =>
              (b' = b /\ cp' = cp0' /\ rxp' = NULL /\ pc' # "app")
        /\ (pc' = "g_wait" /\ c' = CtrlR) =>
              echo' = <<CR>> \o [i \in 1..cp' |-> b'[i - 1]] ]_vars

C20_Witness ==
    /\ pc = "g_wait"
    /\ c = CtrlR
    /\ cp = 2
    /\ echo = <<CR, CharA, SPACE>>
    /\ echo = <<CR>> \o Buffered(cp)

-----------------------------------------------------------------------------
Next ==
    \/ AppPutchar
    \/ P_nl
    \/ P_test
    \/ P_flag
    \/ P_udr
    \/ P_cli
    \/ P_store
    \/ P_wrap
    \/ P_full
    \/ P_sei
    \/ P_ret
    \/ ISR_TX

Spec == Init /\ [][Next]_vars

\* A call of UART0_Putchar runs to its return, and every byte written to UDR0
\* completes and raises the Tx Complete interrupt; the application is free to
\* stop calling.
PutcharStep ==
    \/ P_nl
    \/ P_test
    \/ P_flag
    \/ P_udr
    \/ P_cli
    \/ P_store
    \/ P_wrap
    \/ P_full
    \/ P_sei
    \/ P_ret

SpecLive == Init /\ [][Next]_vars /\ WF_vars(PutcharStep) /\ WF_vars(ISR_TX)

\* The line editor: the application calls uart_getchar, which echoes through
\* UART0_Putchar.  uart_getchar drops every result of UART0_Putchar, so b, cp,
\* rxp and the bytes it passes on do not depend on the transmit side.  Bytes
\* arrive while uart_getchar waits at line 147, and the Tx Complete interrupt
\* is served while the main flow waits there or is in the application; its
\* interleaving with the steps of UART0_Putchar is what Spec explores.
RxArrive == pc = "g_wait" /\ HwReceive

RxCapture == pc = "g_wait" /\ ISR_RX

TxDrain == pc \in {"app", "g_wait"} /\ ISR_TX

NextRd ==
    \/ AppGetchar
    \/ G_entry
    \/ G_wait
    \/ G_fe
    \/ G_dor
    \/ G_read
    \/ G_fin
    \/ G_drain
    \/ G_bs
    \/ G_u
    \/ G_w
    \/ G_r
    \/ P_nl
    \/ P_test
    \/ P_flag
    \/ P_udr
    \/ P_cli
    \/ P_store
    \/ P_wrap
    \/ P_full
    \/ P_sei
    \/ P_ret
    \/ TxDrain
    \/ RxArrive
    \/ RxCapture

SpecRd == Init /\ [][NextRd]_vars

====
